---- MODULE Spec2Model ----
(***************************************************************************)
(* A model of the song catalogue service: the PostgreSQL table music_data, *)
(* the data access object (SongDAO), the service layer (SongService), the  *)
(* pooled connections (PGSQLConnection) and the JSON ingestion pipeline    *)
(* (NormalizeData, InsertData, Processor).                                 *)
(*                                                                         *)
(* Conventions.  A title is a sequence of one-character strings.  A float  *)
(* column holds Num(v), with v in units of 1/10000, or NaN, or NULL; the   *)
(* star rating is kept in hundredths (Num(370) is 3.7), as is a rating     *)
(* handed to the service, which is a tagged value.  Timestamps are         *)
(* readings of a logical clock.                                            *)
(***************************************************************************)
EXTENDS Integers, Sequences, FiniteSets, TLC

VARIABLES
    store,       \* the committed rows of table music_data
    clock,       \* CURRENT_TIMESTAMP
    conn,        \* conn[p]: number of pooled connections process p holds
    pc,          \* pc[w]: where request worker w stands
    req,         \* req[w]: the service call worker w is running
    loc,         \* loc[w]: the local variables of that call
    res,         \* res[w]: what the call returned or raised
    last_rate,   \* history: the rate_song call that last reached the table
    ing,         \* the ingestion script: position, entities, error
    scan         \* a client reading a search page by page

vars == <<store, clock, conn, pc, req, loc, res, last_rate, ing, scan>>

(***************************************************************************)
(* Bounds of the model.                                                    *)
(***************************************************************************)
MaxClock == 1
MaxBatch == 2

(***************************************************************************)
(* Values.                                                                 *)
(***************************************************************************)
NULL == [k |-> "null"]
NaN == [k |-> "nan"]
Num(v) == [k |-> "num", v |-> v]
None == [k |-> "none"]

IsNum(x) == x.k = "num"

(***************************************************************************)
(* Strings: str.strip, LOWER, comparison, LIKE.                            *)
(***************************************************************************)
IsSpace(c) == c = " "

RECURSIVE LStrip(_)
LStrip(s) == IF s = <<>> THEN s
             ELSE IF IsSpace(Head(s)) THEN LStrip(Tail(s)) ELSE s

RECURSIVE RStrip(_)
RStrip(s) == IF s = <<>> THEN s
             ELSE IF IsSpace(s[Len(s)]) THEN RStrip(SubSeq(s, 1, Len(s) - 1)) ELSE s

Strip(s) == RStrip(LStrip(s))

LowerChar(c) ==
    CASE c = "I" -> "i"
      [] c = "L" -> "l"
      [] c = "O" -> "o"
      [] c = "Z" -> "z"
      [] OTHER -> c

Lower(s) == [i \in 1..Len(s) |-> LowerChar(s[i])]

\* Code points, for the ordering of titles in ORDER BY title.
CharCode(c) ==
    CASE c = " " -> 32
      [] c = "%" -> 37
      [] c = "I" -> 73
      [] c = "L" -> 76
      [] c = "O" -> 79
      [] c = "Z" -> 90
      [] c = "_" -> 95
      [] c = "a" -> 97
      [] c = "i" -> 105
      [] c = "l" -> 108
      [] c = "n" -> 110
      [] c = "o" -> 111
      [] c = "u" -> 117
      [] c = "z" -> 122
      [] OTHER -> 0

RECURSIVE TitleLess(_, _)
TitleLess(a, b) ==
    IF b = <<>> THEN FALSE
    ELSE IF a = <<>> THEN TRUE
    ELSE IF CharCode(Head(a)) /= CharCode(Head(b))
         THEN CharCode(Head(a)) < CharCode(Head(b))
    ELSE TitleLess(Tail(a), Tail(b))

\* s LIKE p: % matches any run of characters, _ any one character, and the
\* backslash makes the character after it stand for itself.
RECURSIVE LikeMatch(_, _)
LikeMatch(s, p) ==
    IF p = <<>> THEN s = <<>>
    ELSE IF Head(p) = "%"
         THEN LikeMatch(s, Tail(p)) \/ (s /= <<>> /\ LikeMatch(Tail(s), p))
    ELSE IF Head(p) = "\\"
         THEN /\ Len(p) > 1 /\ s /= <<>> /\ Head(s) = p[2]
              /\ LikeMatch(Tail(s), Tail(Tail(p)))
    ELSE IF s = <<>> THEN FALSE
    ELSE (Head(p) = "_" \/ Head(p) = Head(s)) /\ LikeMatch(Tail(s), Tail(p))

(***************************************************************************)
(* The table music_data.  A row has the columns of CREATE TABLE but the     *)
(* serial index_col, which no statement of the program reads in a WHERE,   *)
(* ORDER BY or ON CONFLICT clause.                                         *)
(***************************************************************************)
NewRow(e, now) ==
    [id |-> e.id, title |-> e.title,
     danceability |-> e.danceability, energy |-> e.energy, mode |-> e.mode,
     accousticness |-> e.accousticness, tempo |-> e.tempo,
     duration_ms |-> e.duration_ms, num_sections |-> e.num_sections,
     num_segments |-> e.num_segments,
     star_rating |-> NULL, created_at |-> now, updated_at |-> now]

\* INSERT ... ON CONFLICT (id) DO UPDATE: the last write wins.
InsertOnConflictDoUpdate(rows, e, now) ==
    {r \in rows : r.id /= e.id} \cup {NewRow(e, now)}

\* INSERT into a table without the primary key: every entity adds a row.
InsertAlways(rows, e, now) == rows \cup {NewRow(e, now)}

\* INSERT ... ON CONFLICT (id) DO NOTHING, one entity.
InsertOnConflictDoNothing(rows, e, now) ==
    IF \E r \in rows : r.id = e.id THEN rows
    ELSE rows \cup {NewRow(e, now)}

\* The for loop of insert_file_data: every entity in order, in one transaction.
RECURSIVE InsertAll(_, _, _)
InsertAll(rows, entities, now) ==
    IF entities = <<>> THEN rows
    ELSE InsertAll(InsertOnConflictDoNothing(rows, Head(entities), now),
                   Tail(entities), now)

(***************************************************************************)
(* SongDAO: each query as a function of the committed rows.                *)
(***************************************************************************)
\* SELECT 1 FROM music_data WHERE title = %s LIMIT 1
ExistsMatch(r, title) == r.title = title

\* An existence check that finds every title.
AlwaysExists(rows, title) == TRUE

check_song_exists(rows, title) == \E r \in rows : ExistsMatch(r, title)

\* WHERE LOWER(title) = LOWER(%s)
ExactMatch(r, title) == Lower(r.title) = Lower(title)

\* get_song_by_title: fetchone() of a query with no ORDER BY returns any one
\* of the matching rows, or None.
get_song_by_title(rows, title) ==
    IF \E r \in rows : ExactMatch(r, title)
    THEN {r \in rows : ExactMatch(r, title)}
    ELSE {None}

\* An UPDATE that sets nothing.
StaleRow(r, rating, now) == r

\* An UPDATE that sets created_at as well.
RecreatedRow(r, rating, now) ==
    [r EXCEPT !.star_rating = rating, !.updated_at = now, !.created_at = now]

\* UPDATE ... SET star_rating, updated_at WHERE LOWER(title) = LOWER(%s)
UpdatedRow(r, rating, now) ==
    [r EXCEPT !.star_rating = rating, !.updated_at = now]

update_song_rating(rows, title, rating, now) ==
    {IF ExactMatch(r, title) THEN UpdatedRow(r, rating, now) ELSE r : r \in rows}

\* RETURNING id, title, star_rating; fetchone() takes one returned row or None.
update_song_rating_returning(rows, title, rating, now) ==
    IF \E r \in rows : ExactMatch(r, title)
    THEN {[id |-> r.id, title |-> r.title, star_rating |-> rating] :
             r \in {x \in rows : ExactMatch(x, title)}}
    ELSE {None}

\* WHERE LOWER(title) LIKE LOWER('%' || term || '%')
SearchMatch(r, term) == LikeMatch(Lower(r.title), Lower(<<"%">> \o term \o <<"%">>))

\* ORDER BY title alone: every row has the same rank.
NoSearchRank(r, term) == 1

\* CASE WHEN LOWER(title) = LOWER(%s) THEN 0 ELSE 1 END
SearchRank(r, term) == IF Lower(r.title) = Lower(term) THEN 0 ELSE 1

\* ORDER BY CASE ..., title
SearchBefore(a, b, term) ==
    \/ SearchRank(a, term) < SearchRank(b, term)
    \/ SearchRank(a, term) = SearchRank(b, term) /\ TitleLess(a.title, b.title)

\* ORDER BY title (get_songs_paginated) and ORDER BY CASE ..., title
\* (get_songs_by_title_paginated): the strict order the sort keys give.
Before(a, b, order) ==
    IF order.by = "search" THEN SearchBefore(a, b, order.term)
    ELSE TitleLess(a.title, b.title)

\* Every order of the rows S the database may return for that ORDER BY: rows
\* the sort keys do not tell apart come in any order, and no order is
\* promised from one query to the next.
RECURSIVE SortedOrders(_, _)
SortedOrders(S, order) ==
    IF S = {} THEN {<<>>}
    ELSE UNION {{<<m>> \o t : t \in SortedOrders(S \ {m}, order)} :
                   m \in {x \in S : \A y \in S : ~Before(y, x, order)}}

\* OFFSET %s without a LIMIT.
OffsetOnly(s, limit, offset) == SubSeq(s, offset + 1, Len(s))

\* LIMIT %s OFFSET %s
LimitOffset(s, limit, offset) ==
    SubSeq(s, offset + 1, IF offset + limit < Len(s) THEN offset + limit ELSE Len(s))

SearchTuple(r) ==
    [id |-> r.id, title |-> r.title, star_rating |-> r.star_rating,
     danceability |-> r.danceability, energy |-> r.energy, mode |-> r.mode,
     accousticness |-> r.accousticness, tempo |-> r.tempo,
     duration_ms |-> r.duration_ms]

ListTuple(r) ==
    [title |-> r.title, id |-> r.id, star_rating |-> r.star_rating,
     danceability |-> r.danceability, energy |-> r.energy, mode |-> r.mode]

\* get_songs_by_title_paginated: the result lists fetchall() may return.
get_songs_by_title_paginated(rows, title, limit, offset) ==
    {[i \in 1..Len(p) |-> SearchTuple(p[i])] :
        p \in {LimitOffset(o, limit, offset) :
                 o \in SortedOrders({r \in rows : SearchMatch(r, title)},
                                    [by |-> "search", term |-> title])}}

\* get_songs_count_by_title: SELECT COUNT(*)
get_songs_count_by_title(rows, title) ==
    Cardinality({r \in rows : SearchMatch(r, title)})

\* get_songs_paginated: the result lists fetchall() may return.
get_songs_paginated(rows, limit, offset) ==
    {[i \in 1..Len(p) |-> ListTuple(p[i])] :
        p \in {LimitOffset(o, limit, offset) :
                 o \in SortedOrders(rows, [by |-> "title"])}}

(***************************************************************************)
(* Python's round() on the floats the service meets.                       *)
(***************************************************************************)
\* The ratings h/100 with h ending in 5 that round(h/100, 1) rounds up: the
\* double nearest h/100 lies above it (or is it, and the lower tenth is odd).
TiesRoundedUp ==
    {5, 45, 55, 65, 75, 105, 135, 155, 175, 185, 235, 245, 275, 285, 295,
     335, 345, 375, 385, 395, 415, 445, 465, 475, 495}

\* round(h/100, 1), in tenths.
Round1(h) ==
    IF h % 10 = 5
    THEN (IF h \in TiesRoundedUp THEN (h \div 10) + 1 ELSE h \div 10)
    ELSE (h + 5) \div 10

\* n/d rounded to the nearest integer, a tie to the even one.
RoundDiv(n, d) ==
    LET q == n \div d
        r == n % d
    IN  IF 2 * r < d THEN q
        ELSE IF 2 * r > d THEN q + 1
        ELSE IF q % 2 = 0 THEN q ELSE q + 1

\* round(x, 3) of a float column value (units of 1/10000); NaN stays NaN.
Round3(x) == IF IsNum(x) THEN Num(10 * RoundDiv(x.v, 10)) ELSE x

(***************************************************************************)
(* SongService: validation and formatting.                                 *)
(***************************************************************************)
MaxTitleLen == 255

\* How a call ends: it returns v (None for an absent result), raises
\* ValueError(msg), or raises the store's exception.
Ok(v) == [k |-> "ok", v |-> v]
ValueError(msg) == [k |-> "ValueError", v |-> msg]
\* psycopg2's exceptions: PoolError from getconn(), DatabaseError from a
\* statement or a commit.
StoreError(type) == [k |-> "Exception", v |-> type]
Pending == [k |-> "pending", v |-> None]

\* The title checks of get_song_by_title; "" when the title passes.
GetTitleError(title) ==
    IF title = <<>> \/ Strip(title) = <<>> THEN "Song title cannot be empty"
    ELSE IF Len(title) > MaxTitleLen THEN "Song title too long (maximum 255 characters)"
    ELSE IF \E i \in 1..Len(title) : title[i] = "NUL"
         THEN "Song title contains invalid characters"
    ELSE ""

\* The title checks of get_song_by_title_paginated.
SearchTitleError(title) ==
    IF title = <<>> \/ Strip(title) = <<>> THEN "Song title cannot be empty"
    ELSE IF Len(title) > MaxTitleLen THEN "Song title too long (maximum 255 characters)"
    ELSE ""

\* rate_song without its title check.
NoTitleError(title) == ""

\* The title check of rate_song.
RateTitleError(title) ==
    IF title = <<>> \/ Strip(title) = <<>> THEN "Song title cannot be empty"
    ELSE ""

MaxLimit == 100

\* The page and limit checks of get_song_by_title_paginated.
SearchPageError(page, limit) ==
    IF page < 1 THEN "Page number must be >= 1"
    ELSE IF limit < 1 \/ limit > MaxLimit THEN "Limit must be between 1 and 100"
    ELSE ""

\* get_all_songs without its limit check.
PageOnlyError(page, limit) ==
    IF page < 1 THEN "Page number must be 1 or greater" ELSE ""

\* The page and limit checks of get_all_songs.
ListPageError(page, limit) ==
    IF page < 1 THEN "Page number must be 1 or greater"
    ELSE IF limit < 1 \/ limit > MaxLimit THEN "Limit must be between 1 and 100"
    ELSE ""

MaxRating == 500

\* A rating argument: a number (hundredths), a bool (an int to Python), NaN,
\* or something that is no number.
IsNumber(rating) == rating.k \in {"num", "bool", "nan"}

\* InRange with the bounds left out of the range.
InRangeOpen(rating) ==
    /\ rating.k \in {"num", "bool"}
    /\ 0 < rating.v /\ rating.v < MaxRating

InRange(rating) ==
    /\ rating.k \in {"num", "bool"}
    /\ 0 <= rating.v /\ rating.v <= MaxRating

\* The rating checks of rate_song.
RatingError(rating) ==
    IF ~IsNumber(rating) THEN "Rating must be a number"
    ELSE IF ~InRange(rating) THEN "Rating must be between 0 and 5"
    ELSE ""

\* rate_song without the call of round.
UnroundedRating(rating) == Num(rating.v)

\* rating = round(float(rating), 1), as a column value.
RoundedRating(rating) == Num(10 * Round1(rating.v))

\* _format_full_song_data
format_full_song_data(r) ==
    [id |-> r.id, title |-> r.title,
     danceability |-> IF r.danceability /= NULL THEN Round3(r.danceability) ELSE NULL,
     energy |-> IF r.energy /= NULL THEN Round3(r.energy) ELSE NULL,
     mode |-> r.mode,
     accousticness |-> IF r.accousticness /= NULL THEN Round3(r.accousticness) ELSE NULL,
     tempo |-> IF r.tempo /= NULL THEN Round3(r.tempo) ELSE NULL,
     duration_ms |-> r.duration_ms, num_sections |-> r.num_sections,
     num_segments |-> r.num_segments, star_rating |-> r.star_rating,
     created_at |-> r.created_at, updated_at |-> r.updated_at,
     is_rated |-> r.star_rating /= NULL,
     duration_minutes |->
         IF IsNum(r.duration_ms) /\ r.duration_ms.v /= 0
         THEN Num(RoundDiv(r.duration_ms.v, 600)) ELSE NULL]

\* _format_paginated_song_data reporting every row as rated.
format_rated_song_data(t) ==
    [id |-> t.id, title |-> t.title, star_rating |-> t.star_rating,
     danceability |-> t.danceability, energy |-> t.energy, mode |-> t.mode,
     accousticness |-> t.accousticness, tempo |-> t.tempo,
     duration_ms |-> t.duration_ms, is_rated |-> TRUE]

\* _format_paginated_song_data
format_paginated_song_data(t) ==
    [id |-> t.id, title |-> t.title, star_rating |-> t.star_rating,
     danceability |-> t.danceability, energy |-> t.energy, mode |-> t.mode,
     accousticness |-> t.accousticness, tempo |-> t.tempo,
     duration_ms |-> t.duration_ms, is_rated |-> t.star_rating /= NULL]

\* The row loop of get_all_songs: "round(x, 3) if x else None".
Truthy(x) == x /= NULL /\ ~(IsNum(x) /\ x.v = 0)

format_list_song_data(t) ==
    [title |-> t.title, id |-> t.id, rating |-> t.star_rating,
     danceability |-> IF Truthy(t.danceability) THEN Round3(t.danceability) ELSE NULL,
     energy |-> IF Truthy(t.energy) THEN Round3(t.energy) ELSE NULL,
     mode |-> t.mode, is_rated |-> t.star_rating /= NULL]

\* total_pages rounded down instead of up.
TotalPagesFloor(total_count, limit) == total_count \div limit

\* total_pages = (total_count + limit - 1) // limit
TotalPages(total_count, limit) == (total_count + limit - 1) \div limit

\* The result dictionary of get_song_by_title_paginated.
PaginatedResult(songs_data, title, page, limit, total_count) ==
    LET total_pages == TotalPages(total_count, limit)
        has_next == page < total_pages
        has_prev == page > 1
    IN  [songs |-> [i \in 1..Len(songs_data) |-> format_paginated_song_data(songs_data[i])],
         search_term |-> title,
         current_page |-> page, per_page |-> limit,
         total_results |-> total_count, total_pages |-> total_pages,
         has_next |-> has_next, has_prev |-> has_prev,
         next_page |-> IF has_next THEN Num(page + 1) ELSE NULL,
         prev_page |-> IF has_prev THEN Num(page - 1) ELSE NULL]

\* The result dictionary of get_all_songs.
ListResult(results, page, limit) ==
    [songs |-> [i \in 1..Len(results) |-> format_list_song_data(results[i])],
     page |-> page, limit |-> limit, count |-> Len(results),
     has_more |-> Len(results) = limit]

\* The result dictionary of rate_song.
RateResult(updated_data) ==
    [id |-> updated_data.id, title |-> updated_data.title,
     rating |-> updated_data.star_rating]

(***************************************************************************)
(* Ingestion: NormalizeData.normalize_json_to_filedata.                    *)
(***************************************************************************)
\* The keys read from each row, in the order FileData(...) evaluates them.
RequiredKeys ==
    <<"id", "title", "danceability", "energy", "mode", "acousticness",
      "tempo", "duration_ms", "num_sections", "num_segments">>

IntKeys == {"mode", "duration_ms", "num_sections", "num_segments"}

\* pd.DataFrame(data): the columns are the keys of all records together.
Columns(data) == UNION {DOMAIN data[i] : i \in 1..Len(data)}

\* A record that lacks a key some other record has holds NaN in that column.
IsNaNCell(data, i, key) == key \notin DOMAIN data[i]

\* KeyError(key) names the key; the ValueError of int(NaN) names none.
KeyError(key) == [k |-> "KeyError", v |-> key]
CoercionError == [k |-> "ValueError", v |-> "cannot convert float NaN to integer"]

\* What reading and coercing row[key] raises, None when it raises nothing:
\* row[key] raises KeyError for a column the frame lacks; int(NaN) raises
\* ValueError; str(NaN) and float(NaN) raise nothing.
CellError(data, i, key) ==
    IF key \notin Columns(data) THEN KeyError(key)
    ELSE IF key \in IntKeys /\ IsNaNCell(data, i, key) THEN CoercionError
    ELSE None

\* The first error among the keys from position j on, in evaluation order.
RECURSIVE RowError(_, _, _)
RowError(data, i, j) ==
    IF j > Len(RequiredKeys) THEN None
    ELSE IF CellError(data, i, RequiredKeys[j]) /= None
         THEN CellError(data, i, RequiredKeys[j])
    ELSE RowError(data, i, j + 1)

StrId(data, i) == IF IsNaNCell(data, i, "id") THEN "nan" ELSE data[i]["id"]

StrTitle(data, i) ==
    IF IsNaNCell(data, i, "title") THEN <<"n", "a", "n">> ELSE data[i]["title"]

FloatCell(data, i, key) == IF IsNaNCell(data, i, key) THEN NaN ELSE Num(data[i][key])

IntCell(data, i, key) == Num(data[i][key])

\* FileData(...) of row i (when the row raises nothing); star_rating stays None.
FileData(data, i) ==
    [id |-> StrId(data, i), title |-> StrTitle(data, i),
     danceability |-> FloatCell(data, i, "danceability"),
     energy |-> FloatCell(data, i, "energy"),
     mode |-> IntCell(data, i, "mode"),
     accousticness |-> FloatCell(data, i, "acousticness"),
     tempo |-> FloatCell(data, i, "tempo"),
     duration_ms |-> IntCell(data, i, "duration_ms"),
     num_sections |-> IntCell(data, i, "num_sections"),
     num_segments |-> IntCell(data, i, "num_segments")]

\* The loop over df.iterrows() from row i on: the list built, or the first
\* exception, which is re-raised.
RECURSIVE NormalizeFrom(_, _, _)
NormalizeFrom(data, i, acc) ==
    IF i > Len(data) THEN [ok |-> TRUE, entities |-> acc, error |-> None]
    ELSE IF RowError(data, i, 1) /= None
         THEN [ok |-> FALSE, entities |-> <<>>, error |-> RowError(data, i, 1)]
    ELSE NormalizeFrom(data, i + 1, Append(acc, FileData(data, i)))

normalize_json_to_filedata(data) == NormalizeFrom(data, 1, <<>>)

(***************************************************************************)
(* The JSON files the ingestion script may be given.                       *)
(***************************************************************************)
Song(id, title, danceability) ==
    [id |-> id, title |-> title, danceability |-> danceability, energy |-> 9263,
     mode |-> 1, acousticness |-> 775, tempo |-> 1199923,
     duration_ms |-> 200000, num_sections |-> 5, num_segments |-> 50]

Without(rec, key) == [f \in DOMAIN rec \ {key} |-> rec[f]]

R_a == Song("a", <<"L", "o">>, 4841)
R_b == Song("b", <<"I", " ", "L", "o">>, 0)
R_c == Song("c", <<"L", "o">>, 4841)
R_a2 == Song("a", <<"l", "o">>, 7000)
R_u == Song("u", <<"L", "_">>, 4841)
R_noTitle == Without(Song("d", <<"Z", "u">>, 4841), "title")
R_noMode == Without(Song("e", <<"Z", "u">>, 4841), "mode")

Records == <<R_a, R_a2, R_noTitle, R_noMode>>

RECURSIVE SeqsUpTo(_, _)
SeqsUpTo(S, n) ==
    IF n = 0 THEN {<<>>}
    ELSE SeqsUpTo(S, n - 1) \cup
         {Append(q, x) : q \in {t \in SeqsUpTo(S, n - 1) : Len(t) = n - 1}, x \in S}

\* Every JSON array of at most MaxBatch of the records.
Files ==
    {[i \in 1..Len(q) |-> Records[q[i]]] : q \in SeqsUpTo(1..Len(Records), MaxBatch)}

\* Two well-formed files: between them two rows of one title, a row whose
\* title only contains it, and one id with two different titles.
SeedFiles == { <<R_a, R_b>>, <<R_a2, R_c>> }

\* The seed files and a file that holds one id twice.
FrameFiles == SeedFiles \cup { <<R_a, R_a2>> }

(***************************************************************************)
(* Processes: the request workers of the Flask application and the         *)
(* ingestion script.  Each holds connections of its own pool.              *)
(***************************************************************************)
Workers == {"w1", "w2"}
\* The worker of the specifications that serve one request at a time.
Single == {"w1"}
Ingest == "ingest"
Procs == Workers \cup {Ingest}

\* maxconn of the pool (DB_MAX_CONN)
MaxConn == 10

PoolUsed == Cardinality({w \in Workers : conn[w] > 0})

\* get_connection with putconn after the yield instead of in finally.
ReleaseOnSuccess(held, outcome) == IF outcome = "error" THEN held ELSE 0

\* get_connection, leaving the with block: finally putconn(connection),
\* whether the block ended normally ("ok") or raised ("error").
ReleaseOnExit(held, outcome) == 0

(***************************************************************************)
(* The inputs of the service calls.                                        *)
(***************************************************************************)
ReqTitles ==
    { <<"l", "o">>, <<" ", "L", "o">>, <<" ">> }

Rating(h) == [k |-> "num", v |-> h]

ReqRatings ==
    { Rating(0 - 10), Rating(0), Rating(25), Rating(500), Rating(510), NaN }

ReqPages == 0..3
ReqLimits == {0, 1, 2, 101}

NoReq == [op |-> "none", title |-> <<>>, rating |-> Rating(0), page |-> 0, limit |-> 0]
\* raised: the exception a DAO method of the call has raised, "" for none.
NoLoc == [title |-> <<>>, rating |-> NULL, offset |-> 0, songs_data |-> <<>>,
          raised |-> ""]
NoRate == [set |-> FALSE, title |-> <<>>, rating |-> 0]
NoScan == [pc |-> "idle", term |-> <<>>, limit |-> 0, total_pages |-> 0,
           page |-> 0, got |-> <<>>, clean |-> TRUE]
NoIng == [pc |-> "idle", data |-> <<>>, entities |-> <<>>, error |-> None]

Init ==
    /\ store = {}
    /\ clock = 0
    /\ conn = [p \in Procs |-> 0]
    /\ pc = [w \in Workers |-> "idle"]
    /\ req = [w \in Workers |-> NoReq]
    /\ loc = [w \in Workers |-> NoLoc]
    /\ res = [w \in Workers |-> Pending]
    /\ last_rate = NoRate
    /\ ing = NoIng
    /\ scan = NoScan

\* Time passes.
Tick ==
    /\ clock < MaxClock
    /\ clock' = clock + 1
    /\ UNCHANGED <<store, conn, pc, req, loc, res, last_rate, ing, scan>>

\* A committed change of the table ends the stretch in which a scan saw one
\* table, and the stretch after a rate_song call in which nobody else wrote.
Dirty(rows) == IF rows /= store THEN [scan EXCEPT !.clean = FALSE] ELSE scan

(***************************************************************************)
(* Processor.process: read, normalize, create the table, insert.           *)
(***************************************************************************)
IngStopped == ing.pc \in {"idle", "done", "raised"}

\* read_json and normalize_json_to_filedata; an exception ends the script.
ProcessStart(data) ==
    /\ IngStopped
    /\ LET n == normalize_json_to_filedata(data)
       IN  ing' = IF n.ok
                  THEN [pc |-> "create_acq", data |-> data,
                        entities |-> n.entities, error |-> None]
                  ELSE [pc |-> "raised", data |-> data,
                        entities |-> <<>>, error |-> n.error]
    /\ UNCHANGED <<store, clock, conn, pc, req, loc, res, last_rate, scan>>

\* get_connection entered by create_table or insert_file_data: getconn()
\* hands out a connection, or raises and nothing is held.
IngAcquire ==
    /\ ing.pc \in {"create_acq", "insert_acq"}
    /\ \/ /\ conn' = [conn EXCEPT ![Ingest] = @ + 1]
          /\ ing' = [ing EXCEPT !.pc = IF ing.pc = "create_acq"
                                       THEN "create_exec" ELSE "insert_exec"]
       \/ /\ ing' = [ing EXCEPT !.pc = "raised", !.entities = <<>>,
                                !.error = StoreError("PoolError")]
          /\ UNCHANGED conn
    /\ UNCHANGED <<store, clock, pc, req, loc, res, last_rate, scan>>

\* create_table: CREATE TABLE IF NOT EXISTS and its commit, or a failure.
CreateTable ==
    /\ ing.pc = "create_exec"
    /\ \/ /\ ing' = [ing EXCEPT !.pc = "insert_acq"]
          /\ conn' = [conn EXCEPT ![Ingest] = ReleaseOnExit(@, "ok")]
       \/ /\ ing' = [ing EXCEPT !.pc = "raised", !.entities = <<>>,
                                !.error = StoreError("DatabaseError")]
          /\ conn' = [conn EXCEPT ![Ingest] = ReleaseOnExit(@, "error")]
    /\ UNCHANGED <<store, clock, pc, req, loc, res, last_rate, scan>>

\* insert_file_data: the inserts and the commit.
InsertFileData ==
    /\ ing.pc = "insert_exec"
    /\ store' = InsertAll(store, ing.entities, clock)
    /\ ing' = [ing EXCEPT !.pc = "done"]
    /\ conn' = [conn EXCEPT ![Ingest] = ReleaseOnExit(@, "ok")]
    /\ last_rate' = IF store' /= store THEN NoRate ELSE last_rate
    /\ scan' = Dirty(store')
    /\ UNCHANGED <<clock, pc, req, loc, res>>

\* A connection in autocommit mode: the rows inserted before the failure
\* stay.
KeepInserted(before, inserted) == inserted

\* connection.rollback(): the table is as it was before the transaction.
Rollback(before, inserted) == before

\* insert_file_data: the insert after the first k entities fails, or the
\* commit (k the length of the batch); get_connection rolls the transaction
\* back and the exception is re-raised.
InsertFileDataFails ==
    /\ ing.pc = "insert_exec"
    /\ \E k \in 0..Len(ing.entities) :
           store' = Rollback(store, InsertAll(store, SubSeq(ing.entities, 1, k), clock))
    /\ ing' = [ing EXCEPT !.pc = "raised", !.entities = <<>>,
                          !.error = StoreError("DatabaseError")]
    /\ conn' = [conn EXCEPT ![Ingest] = ReleaseOnExit(@, "error")]
    /\ UNCHANGED <<clock, pc, req, loc, res, last_rate, scan>>

IngestSteps ==
    \/ IngAcquire
    \/ CreateTable
    \/ InsertFileData
    \/ InsertFileDataFails

(***************************************************************************)
(* SongService calls, run by a request worker.  A call starts with its     *)
(* validation; each DAO method is a getconn step and a statement step,     *)
(* which also leaves the with block.                                       *)
(***************************************************************************)
Free(w) == pc[w] \in {"idle", "done"}

AcqPcs == {"exists_acq", "update_acq", "find_acq", "search_acq", "count_acq", "list_acq"}
ExecPcs == {"exists_exec", "update_exec", "find_exec", "search_exec", "count_exec", "list_exec"}

ExecOf(p) ==
    CASE p = "exists_acq" -> "exists_exec"
      [] p = "update_acq" -> "update_exec"
      [] p = "find_acq" -> "find_exec"
      [] p = "search_acq" -> "search_exec"
      [] p = "count_acq" -> "count_exec"
      [] p = "list_acq" -> "list_exec"

\* A service method answering a DAO method's exception with None.
Swallow(type) == Ok(None)

\* except Exception as e: ... raise, in the DAO methods and in the service
\* methods: the exception of the store goes on to the caller as it is.
Reraise(type) == StoreError(type)

\* rate_song up to its first DAO call.
RateError(title, rating) ==
    IF RateTitleError(title) /= "" THEN RateTitleError(title) ELSE RatingError(rating)

StartRate(w, title, rating) ==
    /\ Free(w)
    /\ req' = [req EXCEPT ![w] = [NoReq EXCEPT !.op = "rate", !.title = title,
                                               !.rating = rating]]
    /\ IF RateError(title, rating) /= ""
       THEN /\ res' = [res EXCEPT ![w] = ValueError(RateError(title, rating))]
            /\ pc' = [pc EXCEPT ![w] = "done"]
            /\ loc' = [loc EXCEPT ![w] = NoLoc]
       ELSE /\ res' = [res EXCEPT ![w] = Pending]
            /\ pc' = [pc EXCEPT ![w] = "exists_acq"]
            /\ loc' = [loc EXCEPT ![w] = [NoLoc EXCEPT !.title = Strip(title),
                                                       !.rating = RoundedRating(rating)]]
    /\ UNCHANGED <<store, clock, conn, last_rate, ing, scan>>

\* get_song_by_title up to its DAO call.
StartGet(w, title) ==
    /\ Free(w)
    /\ req' = [req EXCEPT ![w] = [NoReq EXCEPT !.op = "get", !.title = title]]
    /\ IF GetTitleError(title) /= ""
       THEN /\ res' = [res EXCEPT ![w] = ValueError(GetTitleError(title))]
            /\ pc' = [pc EXCEPT ![w] = "done"]
            /\ loc' = [loc EXCEPT ![w] = NoLoc]
       ELSE /\ res' = [res EXCEPT ![w] = Pending]
            /\ pc' = [pc EXCEPT ![w] = "find_acq"]
            /\ loc' = [loc EXCEPT ![w] = [NoLoc EXCEPT !.title = Strip(title)]]
    /\ UNCHANGED <<store, clock, conn, last_rate, ing, scan>>

\* get_song_by_title_paginated up to its first DAO call.
SearchError(title, page, limit) ==
    IF SearchTitleError(title) /= "" THEN SearchTitleError(title)
    ELSE SearchPageError(page, limit)

StartSearch(w, title, page, limit) ==
    /\ Free(w)
    /\ req' = [req EXCEPT ![w] = [NoReq EXCEPT !.op = "search", !.title = title,
                                               !.page = page, !.limit = limit]]
    /\ IF SearchError(title, page, limit) /= ""
       THEN /\ res' = [res EXCEPT ![w] = ValueError(SearchError(title, page, limit))]
            /\ pc' = [pc EXCEPT ![w] = "done"]
            /\ loc' = [loc EXCEPT ![w] = NoLoc]
       ELSE /\ res' = [res EXCEPT ![w] = Pending]
            /\ pc' = [pc EXCEPT ![w] = "search_acq"]
            /\ loc' = [loc EXCEPT ![w] = [NoLoc EXCEPT !.title = Strip(title),
                                                       !.offset = (page - 1) * limit]]
    /\ UNCHANGED <<store, clock, conn, last_rate, ing, scan>>

\* get_all_songs up to its DAO call.
StartList(w, page, limit) ==
    /\ Free(w)
    /\ req' = [req EXCEPT ![w] = [NoReq EXCEPT !.op = "list", !.page = page,
                                               !.limit = limit]]
    /\ IF ListPageError(page, limit) /= ""
       THEN /\ res' = [res EXCEPT ![w] = ValueError(ListPageError(page, limit))]
            /\ pc' = [pc EXCEPT ![w] = "done"]
            /\ loc' = [loc EXCEPT ![w] = NoLoc]
       ELSE /\ res' = [res EXCEPT ![w] = Pending]
            /\ pc' = [pc EXCEPT ![w] = "list_acq"]
            /\ loc' = [loc EXCEPT ![w] = [NoLoc EXCEPT !.offset = (page - 1) * limit]]
    /\ UNCHANGED <<store, clock, conn, last_rate, ing, scan>>

\* get_connection entered by a DAO method: getconn() hands out a connection
\* of the pool, or raises (pool exhausted, server unreachable): nothing is
\* held, and the exception passes through the DAO and the service.
Acquire(w) ==
    /\ pc[w] \in AcqPcs
    /\ \/ /\ PoolUsed < MaxConn
          /\ conn' = [conn EXCEPT ![w] = @ + 1]
          /\ pc' = [pc EXCEPT ![w] = ExecOf(pc[w])]
          /\ UNCHANGED <<res, loc>>
       \/ /\ loc' = [loc EXCEPT ![w].raised = "PoolError"]
          /\ res' = [res EXCEPT ![w] = Reraise("PoolError")]
          /\ pc' = [pc EXCEPT ![w] = "done"]
          /\ UNCHANGED conn
    /\ UNCHANGED <<store, clock, req, last_rate, ing, scan>>

\* The statement (or the commit) of a DAO method fails: get_connection
\* rolls back, returns the connection, and the exception is re-raised.
ExecFails(w) ==
    /\ pc[w] \in ExecPcs
    /\ conn' = [conn EXCEPT ![w] = ReleaseOnExit(@, "error")]
    /\ loc' = [loc EXCEPT ![w].raised = "DatabaseError"]
    /\ res' = [res EXCEPT ![w] = Reraise("DatabaseError")]
    /\ pc' = [pc EXCEPT ![w] = "done"]
    /\ UNCHANGED <<store, clock, req, last_rate, ing, scan>>

RateCall(w) == [set |-> TRUE, title |-> loc[w].title, rating |-> req[w].rating.v]

\* check_song_exists, and rate_song returning None when it is False.
Exists(w) ==
    /\ pc[w] = "exists_exec"
    /\ conn' = [conn EXCEPT ![w] = ReleaseOnExit(@, "ok")]
    /\ IF check_song_exists(store, loc[w].title)
       THEN /\ pc' = [pc EXCEPT ![w] = "update_acq"]
            /\ UNCHANGED <<res, last_rate>>
       ELSE /\ pc' = [pc EXCEPT ![w] = "done"]
            /\ res' = [res EXCEPT ![w] = Ok(None)]
            /\ last_rate' = RateCall(w)
    /\ UNCHANGED <<store, clock, req, loc, ing, scan>>

\* update_song_rating with its commit, and the rest of rate_song.
UpdateRating(w) ==
    /\ pc[w] = "update_exec"
    /\ store' = update_song_rating(store, loc[w].title, loc[w].rating, clock)
    /\ \E t \in update_song_rating_returning(store, loc[w].title, loc[w].rating, clock) :
           res' = [res EXCEPT ![w] = IF t = None THEN Ok(None) ELSE Ok(RateResult(t))]
    /\ conn' = [conn EXCEPT ![w] = ReleaseOnExit(@, "ok")]
    /\ pc' = [pc EXCEPT ![w] = "done"]
    /\ last_rate' = RateCall(w)
    /\ scan' = Dirty(store')
    /\ UNCHANGED <<clock, req, loc, ing>>

\* SongDAO.get_song_by_title, and the rest of the service's get_song_by_title.
FindByTitle(w) ==
    /\ pc[w] = "find_exec"
    /\ \E r \in get_song_by_title(store, loc[w].title) :
           res' = [res EXCEPT ![w] = IF r = None THEN Ok(None)
                                     ELSE Ok(format_full_song_data(r))]
    /\ conn' = [conn EXCEPT ![w] = ReleaseOnExit(@, "ok")]
    /\ pc' = [pc EXCEPT ![w] = "done"]
    /\ UNCHANGED <<store, clock, req, loc, last_rate, ing, scan>>

\* get_songs_by_title_paginated.
SearchPage(w) ==
    /\ pc[w] = "search_exec"
    /\ \E songs \in get_songs_by_title_paginated(store, loc[w].title,
                                                 req[w].limit, loc[w].offset) :
           loc' = [loc EXCEPT ![w].songs_data = songs]
    /\ conn' = [conn EXCEPT ![w] = ReleaseOnExit(@, "ok")]
    /\ pc' = [pc EXCEPT ![w] = "count_acq"]
    /\ UNCHANGED <<store, clock, req, res, last_rate, ing, scan>>

\* get_song_by_title_paginated returning None when the count is zero
\* instead of when the page is empty.
CountMatchingByCount(w) ==
    /\ pc[w] = "count_exec"
    /\ LET total_count == get_songs_count_by_title(store, loc[w].title)
       IN  res' = [res EXCEPT ![w] =
                      IF total_count = 0 THEN Ok(None)
                      ELSE Ok(PaginatedResult(loc[w].songs_data, loc[w].title,
                                              req[w].page, req[w].limit, total_count))]
    /\ conn' = [conn EXCEPT ![w] = ReleaseOnExit(@, "ok")]
    /\ pc' = [pc EXCEPT ![w] = "done"]
    /\ loc' = [loc EXCEPT ![w].songs_data = <<>>]
    /\ UNCHANGED <<store, clock, req, last_rate, ing, scan>>

\* get_songs_count_by_title, and the rest of get_song_by_title_paginated.
CountMatching(w) ==
    /\ pc[w] = "count_exec"
    /\ LET total_count == get_songs_count_by_title(store, loc[w].title)
       IN  res' = [res EXCEPT ![w] =
                      IF loc[w].songs_data = <<>> THEN Ok(None)
                      ELSE Ok(PaginatedResult(loc[w].songs_data, loc[w].title,
                                              req[w].page, req[w].limit, total_count))]
    /\ conn' = [conn EXCEPT ![w] = ReleaseOnExit(@, "ok")]
    /\ pc' = [pc EXCEPT ![w] = "done"]
    /\ loc' = [loc EXCEPT ![w].songs_data = <<>>]
    /\ UNCHANGED <<store, clock, req, last_rate, ing, scan>>

\* get_songs_paginated, and the rest of get_all_songs.
ListPage(w) ==
    /\ pc[w] = "list_exec"
    /\ \E results \in get_songs_paginated(store, req[w].limit, loc[w].offset) :
           res' = [res EXCEPT ![w] = Ok(ListResult(results, req[w].page, req[w].limit))]
    /\ conn' = [conn EXCEPT ![w] = ReleaseOnExit(@, "ok")]
    /\ pc' = [pc EXCEPT ![w] = "done"]
    /\ UNCHANGED <<store, clock, req, loc, last_rate, ing, scan>>

\* The steps of rate_song once started.
RateSteps(w) ==
    \/ Acquire(w)
    \/ ExecFails(w)
    \/ Exists(w)
    \/ UpdateRating(w)

\* The steps of rate_song and get_song_by_title once started.
RateGetSteps(w) ==
    \/ RateSteps(w)
    \/ FindByTitle(w)

\* The steps of every service call once started.
ServiceSteps(w) ==
    \/ RateGetSteps(w)
    \/ SearchPage(w)
    \/ CountMatching(w)
    \/ ListPage(w)

(***************************************************************************)
(* A client that reads a search to its end: it asks for the count, then    *)
(* for the pages at offsets 0, limit, 2 * limit, ... up to total_pages,    *)
(* and strings the pages together.                                         *)
(***************************************************************************)
ScanTerms == { <<"l", "o">>, <<"o">> }
MaxScanLimit == 2

ScanStart(term, limit) ==
    /\ scan.pc \in {"idle", "done"}
    /\ LET total_pages == TotalPages(get_songs_count_by_title(store, term), limit)
       IN  scan' = [pc |-> IF total_pages = 0 THEN "done" ELSE "reading",
                    term |-> term, limit |-> limit, total_pages |-> total_pages,
                    page |-> 1, got |-> <<>>, clean |-> TRUE]
    /\ UNCHANGED <<store, clock, conn, pc, req, loc, res, last_rate, ing>>

ScanPage ==
    /\ scan.pc = "reading"
    /\ \E songs \in get_songs_by_title_paginated(store, scan.term, scan.limit,
                                                 (scan.page - 1) * scan.limit) :
           scan' = [scan EXCEPT !.got = @ \o songs,
                                !.page = @ + 1,
                                !.pc = IF scan.page = scan.total_pages
                                       THEN "done" ELSE "reading"]
    /\ UNCHANGED <<store, clock, conn, pc, req, loc, res, last_rate, ing>>

(***************************************************************************)
(* Spec: the ingestion script run on the seed files, and a worker serving  *)
(* rate_song and get_song_by_title calls.                                  *)
(***************************************************************************)
Next ==
    \/ \E data \in SeedFiles : ProcessStart(data)
    \/ IngestSteps
    \/ \E w \in Single, title \in ReqTitles, rating \in ReqRatings :
           StartRate(w, title, rating)
    \/ \E w \in Single, title \in ReqTitles : StartGet(w, title)
    \/ \E w \in Single : RateGetSteps(w)

Spec == Init /\ [][Next]_vars

(***************************************************************************)
(* SpecIngest: the ingestion script alone, run on every file, as time      *)
(* passes.                                                                 *)
(***************************************************************************)
NextIngest ==
    \/ Tick
    \/ \E data \in Files : ProcessStart(data)
    \/ IngestSteps

SpecIngest == Init /\ [][NextIngest]_vars

(***************************************************************************)
(* SpecFrame: the ingestion script run on the seed files and on a file    *)
(* that holds one id twice, and a worker rating one title, as time passes. *)
(***************************************************************************)
NextFrame ==
    \/ Tick
    \/ \E data \in FrameFiles : ProcessStart(data)
    \/ IngestSteps
    \/ \E w \in Single : StartRate(w, <<" ", "L", "o">>, Rating(25))
    \/ \E w \in Single : RateSteps(w)

SpecFrame == Init /\ [][NextFrame]_vars

(***************************************************************************)
(* SpecPool: the ingestion script run on the seed files and a worker       *)
(* serving all four service calls.                                         *)
(***************************************************************************)
NextPool ==
    \/ \E data \in SeedFiles : ProcessStart(data)
    \/ IngestSteps
    \/ \E w \in Single, title \in {<<"l", "o">>, <<" ", "L", "o">>} :
           StartRate(w, title, Rating(500))
    \/ \E w \in Single : StartGet(w, <<"l", "o">>)
    \/ \E w \in Single, page \in 1..2 : StartSearch(w, <<"l", "o">>, page, 1)
    \/ \E w \in Single, limit \in 1..2 : StartList(w, 1, limit)
    \/ \E w \in Single : ServiceSteps(w)

SpecPool == Init /\ [][NextPool]_vars

(***************************************************************************)
(* SpecScan: the ingestion script run on the seed files and the client     *)
(* reading searches page by page.                                          *)
(***************************************************************************)
NextScan ==
    \/ \E data \in SeedFiles : ProcessStart(data)
    \/ IngestSteps
    \/ \E term \in ScanTerms, limit \in 1..MaxScanLimit : ScanStart(term, limit)
    \/ ScanPage

SpecScan == Init /\ [][NextScan]_vars

(***************************************************************************)
(* SpecValid: the ingestion script run on a seed file and a worker         *)
(* serving all four service calls with arguments on both sides of every    *)
(* check the service makes.                                                *)
(***************************************************************************)
\* A title one character longer than the service allows.
LongTitle == [i \in 1..(MaxTitleLen + 1) |-> "o"]

ValidTitles ==
    { <<"l", "o">>, <<" ", "L", "o", " ">>, <<" ">>, <<>>, LongTitle,
      <<"L", "o", "NUL">> }

NextValid ==
    \/ ProcessStart(<<R_a, R_b>>)
    \/ IngestSteps
    \/ \E w \in Single, title \in ValidTitles, rating \in {Rating(25), Rating(510)} :
           StartRate(w, title, rating)
    \/ \E w \in Single, title \in ValidTitles : StartGet(w, title)
    \/ \E w \in Single, title \in ValidTitles \ {<<>>, <<"l", "o">>},
             page \in 0..2, limit \in {0, 1, MaxLimit + 1} :
           StartSearch(w, title, page, limit)
    \/ \E w \in Single, page \in 0..2, limit \in {0, 1, MaxLimit + 1} :
           StartList(w, page, limit)
    \/ \E w \in Single : ServiceSteps(w)

SpecValid == Init /\ [][NextValid]_vars

(***************************************************************************)
(* The endpoints: GET /api/song/<title> and POST /api/song/<title>/rate.   *)
(***************************************************************************)
\* jsonify(...), status: the status, the success flag, and the value sent
\* under the key data, message or error.
Response(status, success, key, value) ==
    [status |-> status, success |-> success, key |-> key, value |-> value]

\* An endpoint answering every result as a hit.
FoundResponse(r) == Response(200, TRUE, "data", r.v)

\* What get_song_by_title (the endpoint) sends for the outcome r of the
\* service's get_song_by_title.
GetResponse(r) ==
    CASE r.k = "ok" /\ r.v /= None -> Response(200, TRUE, "data", r.v)
      [] r.k = "ok" /\ r.v = None -> Response(404, FALSE, "message", "Song not found")
      [] r.k = "ValueError" -> Response(400, FALSE, "message", r.v)
      [] OTHER -> Response(500, FALSE, "error", r.v)

\* What it sends for the outcome r of get_song_by_title_paginated.
SearchResponse(r) ==
    CASE r.k = "ok" /\ r.v /= None -> Response(200, TRUE, "data", r.v)
      [] r.k = "ok" /\ r.v = None -> Response(404, FALSE, "message", "No songs found")
      [] r.k = "ValueError" -> Response(400, FALSE, "message", r.v)
      [] OTHER -> Response(500, FALSE, "error", r.v)

\* What rate_song (the endpoint) sends for the outcome r of the service
\* call: its only handler is except Exception.
RateResponse(r) ==
    CASE r.k = "ok" /\ r.v /= None -> Response(200, TRUE, "data", r.v)
      [] r.k = "ok" /\ r.v = None -> Response(404, FALSE, "message", "Song not found")
      [] OTHER -> Response(500, FALSE, "error", r.v)

\* A request body: none, one that is no JSON, or a JSON value.
Missing == [k |-> "missing"]
Garbage == [k |-> "garbage"]
JObject(f) == [k |-> "object", v |-> f]
JArray(s) == [k |-> "array", v |-> s]
JString(s) == [k |-> "str", v |-> s]
JBool(b) == [k |-> "bool", v |-> b]

\* needle occurs in hay as a contiguous run of characters.
Contains(hay, needle) ==
    \E i \in 0..(Len(hay) - Len(needle)) :
        SubSeq(hay, i + 1, i + Len(needle)) = needle

\* request.get_json(force=True) in try/except: None for no body, for a body
\* that does not parse and for the JSON null.
get_json(body) == IF body.k \in {"missing", "garbage", "null"} THEN None ELSE body

\* not data
Falsy(data) ==
    \/ data = None
    \/ data.k \in {"object", "array", "str"} /\ DOMAIN data.v = {}
    \/ data.k \in {"num", "bool"} /\ data.v = 0

\* 'rating' in data, for a dict, a list and a str.
HasRating(data) ==
    CASE data.k = "object" -> "rating" \in DOMAIN data.v
      [] data.k = "array" -> \E i \in DOMAIN data.v : data.v[i] = JString(<<"r", "a", "t", "i", "n", "g">>)
      [] data.k = "str" -> Contains(data.v, <<"r", "a", "t", "i", "n", "g">>)

Early(status, text) ==
    [k |-> "response",
     v |-> Response(status, FALSE, IF status = 500 THEN "error" ELSE "message", text)]
Call(rating) == [k |-> "call", v |-> rating]

\* float(rating)
FloatOf(rating) == IF rating.k = "bool" THEN Num(100 * rating.v) ELSE rating

\* rate_song (the endpoint) up to the service call: the response it sends
\* without one, or the rating it calls the service with.  An int or a bool
\* body makes `in` raise TypeError, a list or a str with 'rating' in it makes
\* .get raise AttributeError; except Exception answers both with 500.
rate_song_endpoint(body) ==
    LET data == get_json(body)
    IN  IF Falsy(data) THEN Early(400, "Request body is required")
        ELSE IF data.k \in {"num", "bool"} THEN Early(500, "TypeError")
        ELSE IF ~HasRating(data) THEN Early(400, "Rating is required")
        ELSE IF data.k /= "object" THEN Early(500, "AttributeError")
        ELSE IF data.v["rating"] = NULL
             THEN Early(400, "Rating must be a number between 0 and 5")
        ELSE IF ~IsNumber(data.v["rating"]) \/ ~InRange(data.v["rating"])
             THEN Early(400, "Rating must be a number between 0 and 5")
        ELSE Call(FloatOf(data.v["rating"]))

\* POST /api/song/<title>/rate with the body.
HttpRate(w, title, body) ==
    LET e == rate_song_endpoint(body)
        request == [op |-> IF e.k = "call" THEN "rate" ELSE "http_rate",
                    title |-> title,
                    rating |-> IF e.k = "call" THEN e.v ELSE Rating(0),
                    page |-> 0, limit |-> 0, body |-> body]
    IN  /\ Free(w)
        /\ req' = [req EXCEPT ![w] = request]
        /\ IF e.k = "response"
           THEN /\ res' = [res EXCEPT ![w] = e]
                /\ pc' = [pc EXCEPT ![w] = "done"]
                /\ loc' = [loc EXCEPT ![w] = NoLoc]
           ELSE IF RateError(title, e.v) /= ""
           THEN /\ res' = [res EXCEPT ![w] = ValueError(RateError(title, e.v))]
                /\ pc' = [pc EXCEPT ![w] = "done"]
                /\ loc' = [loc EXCEPT ![w] = NoLoc]
           ELSE /\ res' = [res EXCEPT ![w] = Pending]
                /\ pc' = [pc EXCEPT ![w] = "exists_acq"]
                /\ loc' = [loc EXCEPT ![w] = [NoLoc EXCEPT !.title = Strip(title),
                                                           !.rating = RoundedRating(e.v)]]
        /\ UNCHANGED <<store, clock, conn, last_rate, ing, scan>>

\* GET /api/song/<title>, page and limit being NULL when the query string
\* lacks them: the paginated search when either is given, with the defaults
\* page 1 and limit 10, and else the exact lookup.
HttpGet(w, title, page, limit) ==
    IF page /= NULL \/ limit /= NULL
    THEN StartSearch(w, title, IF page /= NULL THEN page.v ELSE 1,
                               IF limit /= NULL THEN limit.v ELSE 10)
    ELSE StartGet(w, title)

\* The response sent for the request of worker w once its call has ended.
HttpResponse(w) ==
    IF res[w].k = "response" THEN res[w].v
    ELSE IF req[w].op = "rate" THEN RateResponse(res[w])
    ELSE IF req[w].op = "search" THEN SearchResponse(res[w])
    ELSE GetResponse(res[w])

(***************************************************************************)
(* SpecPage: the ingestion script run on the seed files and a worker       *)
(* serving GET requests for one title.                                     *)
(***************************************************************************)
\* The steps of get_song_by_title and get_song_by_title_paginated once started.
GetSteps(w) ==
    \/ Acquire(w)
    \/ ExecFails(w)
    \/ FindByTitle(w)
    \/ SearchPage(w)
    \/ CountMatching(w)

HttpPages == {NULL} \cup {Num(n) : n \in 1..3}
HttpLimits == {NULL} \cup {Num(n) : n \in 1..3}

NextPage ==
    \/ \E data \in SeedFiles : ProcessStart(data)
    \/ IngestSteps
    \/ \E w \in Single, page \in HttpPages, limit \in HttpLimits :
           HttpGet(w, <<"l", "o">>, page, limit)
    \/ \E w \in Single : GetSteps(w)

SpecPage == Init /\ [][NextPage]_vars

(***************************************************************************)
(* SpecHttp: the ingestion script run on a seed file and a worker serving  *)
(* POST requests with every kind of body, and GET requests.                *)
(***************************************************************************)
\* The steps of the calls the endpoints make.
HttpSteps(w) ==
    \/ RateGetSteps(w)
    \/ SearchPage(w)
    \/ CountMatching(w)

HttpBodies ==
    { Missing, Garbage, NULL,
      JObject(<<>>), JObject([key \in {"other"} |-> Num(100)]),
      JObject([key \in {"rating"} |-> Num(450)]),
      JObject([key \in {"rating"} |-> Num(510)]),
      JObject([key \in {"rating"} |-> NULL]),
      JObject([key \in {"rating"} |-> JBool(1)]),
      JObject([key \in {"rating"} |-> Num(0)]),
      JObject([key \in {"rating"} |-> Num(500)]),
      JObject([key \in {"rating"} |-> Num(0 - 10)]),
      JObject([key \in {"rating"} |-> NaN]),
      JObject([key \in {"rating"} |-> JString(<<"4">>)]),
      JObject([key \in {"rating"} |-> JArray(<<>>)]),
      JObject([key \in {"rating"} |-> JObject(<<>>)]),
      JArray(<<>>), JArray(<<Num(100)>>), JArray(<<JString(<<"r", "a", "t", "i", "n", "g">>)>>),
      JString(<<"x">>), Num(0), Num(500), JBool(1) }

NextHttp ==
    \/ ProcessStart(<<R_a, R_b>>)
    \/ IngestSteps
    \/ \E w \in Single, title \in {<<"L", "o">>, <<" ">>}, body \in HttpBodies :
           HttpRate(w, title, body)
    \/ \E w \in Single, title \in {<<"l", "o">>, <<" ">>}, limit \in {NULL, Num(0), Num(1)} :
           HttpGet(w, title, NULL, limit)
    \/ \E w \in Single : HttpSteps(w)

SpecHttp == Init /\ [][NextHttp]_vars

(***************************************************************************)
(* SpecRace: the ingestion script run on a seed file and two workers       *)
(* serving rate_song calls for a title of the file once it is stored.      *)
(***************************************************************************)
RaceTitle == <<"L", "o">>
RaceRatings == {Rating(25), Rating(500)}

NextRace ==
    \/ ProcessStart(<<R_a, R_b>>)
    \/ IngestSteps
    \/ \E w \in Workers, rating \in RaceRatings :
           /\ \E r \in store : r.title = RaceTitle
           /\ StartRate(w, RaceTitle, rating)
    \/ \E w \in Workers : RateSteps(w)

SpecRace == Init /\ [][NextRace]_vars

(***************************************************************************)
(* SpecStore: the ingestion script run on the seed files and a worker      *)
(* serving a rate_song call and the three reading calls, as time passes.   *)
(***************************************************************************)
NextStore ==
    \/ Tick
    \/ \E data \in SeedFiles : ProcessStart(data)
    \/ IngestSteps
    \/ \E w \in Single : StartRate(w, <<"L", "o">>, Rating(25))
    \/ \E w \in Single : StartGet(w, <<"l", "o">>)
    \/ \E w \in Single : StartSearch(w, <<"o">>, 1, 1)
    \/ \E w \in Single : StartList(w, 1, 1)
    \/ \E w \in Single : ServiceSteps(w)

SpecStore == Init /\ [][NextStore]_vars

(***************************************************************************)
(* SpecDefend: the ingestion script run on the seed files and two workers  *)
(* serving rate_song calls at any time, for titles that come to be stored  *)
(* as given and in another letter case.                                    *)
(***************************************************************************)
DefendTitles == { <<"L", "o">>, <<"l", "o">> }

NextDefend ==
    \/ \E data \in SeedFiles : ProcessStart(data)
    \/ IngestSteps
    \/ \E w \in Workers, title \in DefendTitles : StartRate(w, title, Rating(25))
    \/ \E w \in Workers : RateSteps(w)

SpecDefend == Init /\ [][NextDefend]_vars

(***************************************************************************)
(* SpecLike: the ingestion script run on files with and without a title    *)
(* that holds an underscore, and a worker serving searches for terms with  *)
(* and without the characters % and _.                                     *)
(***************************************************************************)
LikeFiles == { <<R_a, R_b>>, <<R_u>> }
LikeTerms == { <<"o">>, <<"L", "O">>, <<"_">>, <<"L", "_">>, <<"%">> }
LikeLimit == 3

NextLike ==
    \/ \E data \in LikeFiles : ProcessStart(data)
    \/ IngestSteps
    \/ \E w \in Single, term \in LikeTerms : StartSearch(w, term, 1, LikeLimit)
    \/ \E w \in Single : Acquire(w)
    \/ \E w \in Single : ExecFails(w)
    \/ \E w \in Single : SearchPage(w)
    \/ \E w \in Single : CountMatching(w)

SpecLike == Init /\ [][NextLike]_vars

(***************************************************************************)
(* Properties.                                                             *)
(***************************************************************************)
\* Worker w takes a step.
WorkerStep(w) == pc'[w] /= pc[w] \/ req'[w] /= req[w] \/ res'[w] /= res[w]

\* Some stored track's title equals the title ignoring letter case.
StoredIgnoringCase(rows, title) == \E r \in rows : Lower(r.title) = Lower(title)

\* C1: when get_song_by_title(title) returns and the last call that reached
\* the table was rate_song(title, rating), nobody having written since, and a
\* stored title equals the trimmed title ignoring case, then the record
\* returned has star_rating = round(rating, 1) and is_rated true.
C1_RateThenGet ==
    [][\A w \in Workers :
          ( /\ pc[w] = "find_exec" /\ pc'[w] = "done" /\ res'[w].k = "ok"
            /\ last_rate.set /\ last_rate.title = loc[w].title
            /\ StoredIgnoringCase(store, loc[w].title) )
          => /\ res'[w].v /= None
             /\ res'[w].v.star_rating = Num(10 * Round1(last_rate.rating))
             /\ res'[w].v.is_rated = TRUE]_vars

C6_RatingDomain ==
    \A r \in store :
        \/ r.star_rating = NULL
        \/ /\ IsNum(r.star_rating)
           /\ 0 <= r.star_rating.v /\ r.star_rating.v <= 500
           /\ r.star_rating.v % 10 = 0

\* C6's case: the rating 0.25 was stored, as 0.2, beside an unrated track.
C6_Witness ==
    /\ \E r \in store : r.star_rating = Num(20)
    /\ \E r \in store : r.star_rating = NULL

\* C8: check_song_exists reports a title present exactly when some stored
\* track's title equals it ignoring letter case.
C8_ExistsIgnoresCase ==
    [][\A w \in Workers :
          (pc[w] = "exists_exec" /\ WorkerStep(w) /\ res'[w].k /= "Exception")
          => (pc'[w] = "update_acq" <=> StoredIgnoringCase(store, loc[w].title))]_vars

\* insert_file_data commits in this step.
Inserted == ing.pc = "insert_exec" /\ ing'.pc = "done"

\* C2: when insert_file_data has committed a list of entities, running it
\* again on the same list, at any time, leaves the table exactly as it is.
C2_UpsertIdempotent ==
    [][Inserted => \A t \in 0..MaxClock :
                       InsertAll(store', ing.entities, t) = store']_vars

\* C2's case: the first seed file has been ingested, later the second, then
\* the first again, a track of the first having been rated.
C2_Witness ==
    /\ ing.pc = "done" /\ ing.data = <<R_a, R_b>>
    /\ \E r \in store : r.id = "b" /\ r.created_at = 0
    /\ \E r \in store : r.id = "c" /\ r.created_at = 1
    /\ \E r \in store : /\ r.id = "a" /\ r.title = <<"L", "o">>
                        /\ r.created_at = 0 /\ r.star_rating /= NULL

\* C3: a scan of a search over an unchanging table, page after page up to
\* total_pages, yields as many rows as the count, no id twice, and the ids
\* of all the matching tracks.
C3_PaginationLaw ==
    (scan.pc = "done" /\ scan.clean)
    => /\ Len(scan.got) = Cardinality({r \in store : SearchMatch(r, scan.term)})
       /\ \A i, j \in DOMAIN scan.got :
              i /= j => scan.got[i].id /= scan.got[j].id
       /\ {scan.got[i].id : i \in DOMAIN scan.got}
              = {r.id : r \in {x \in store : SearchMatch(x, scan.term)}}

\* C4: in the rows of a scan over an unchanging table, no track whose title
\* is not the term ignoring case comes before one whose title is, and of two
\* tracks that both are or both are not, the later one's title is not the
\* smaller.
C4_ExactMatchesFirst ==
    scan.clean
    => \A i, j \in DOMAIN scan.got :
           i < j
           => LET exact_i == Lower(scan.got[i].title) = Lower(scan.term)
                  exact_j == Lower(scan.got[j].title) = Lower(scan.term)
              IN  /\ exact_j => exact_i
                  /\ (exact_i <=> exact_j)
                     => ~TitleLess(scan.got[j].title, scan.got[i].title)

\* C4's case: a finished scan for "lo" that read "Lo" and "lo", ingested in
\* that order or the other, before "I Lo".
C4_Witness ==
    /\ scan.pc = "done" /\ scan.clean /\ scan.term = <<"l", "o">>
    /\ Len(scan.got) = 3
    /\ scan.got[1].title = <<"L", "o">>
    /\ scan.got[2].title = <<"l", "o">>
    /\ scan.got[3].title = <<"I", " ", "L", "o">>

\* No two rows have the same id.
UniqueIds(rows) == \A a, b \in rows : a.id = b.id => a = b

\* C7: no two rows ever have the same id; when insert_file_data commits,
\* every row that was in the table is in it unchanged, and an id that was
\* not gets the row of the first entity of the list with that id.
C7_FirstWriteWins ==
    [][/\ UniqueIds(store')
       /\ Inserted
          => /\ \A r \in store : r \in store'
             /\ \A i \in DOMAIN ing.entities :
                    (/\ \A r \in store : r.id /= ing.entities[i].id
                     /\ \A j \in 1..(i - 1) :
                            ing.entities[j].id /= ing.entities[i].id)
                    => NewRow(ing.entities[i], clock) \in store']_vars

\* C7's case: the second seed file, whose first entity has the id of a
\* stored and rated track and another title, has been ingested later than
\* the first: the track is as it was and the file's other entity is stored.
C7_Witness ==
    /\ ing.pc = "done" /\ ing.data = <<R_a2, R_c>>
    /\ \E r \in store : /\ r.id = "a" /\ r.title = <<"L", "o">>
                        /\ r.star_rating = Num(20)
                        /\ r.created_at = 0 /\ r.updated_at = 0
    /\ \E r \in store : r.id = "c" /\ r.created_at = 1

\* The required keys some record of the file lacks.
MissingKeys(data) ==
    {RequiredKeys[n] : n \in {m \in DOMAIN RequiredKeys :
                                \E i \in DOMAIN data : RequiredKeys[m] \notin DOMAIN data[i]}}

\* C9: a run on a file in which some record lacks a required key has ended
\* in normalization, before any statement, with a KeyError naming a key that
\* is missing, and with no entities.
C9_MissingKeyFailsBatch ==
    (ing.pc /= "idle" /\ MissingKeys(ing.data) /= {})
    => /\ ing.pc = "raised"
       /\ ing.error.k = "KeyError"
       /\ ing.error.v \in MissingKeys(ing.data)
       /\ ing.entities = <<>>

\* C10: a DAO method holds one connection while its statement runs and none
\* before or after, however it ends; so do create_table and
\* insert_file_data.
C10_ConnectionReturned ==
    /\ \A w \in Workers : conn[w] = IF pc[w] \in ExecPcs THEN 1 ELSE 0
    /\ conn[Ingest] = IF ing.pc \in {"create_exec", "insert_exec"} THEN 1 ELSE 0

\* C10's case: a service call has ended with the exception of a statement
\* that failed, and no connection is held.
C10_Witness ==
    \E w \in Workers :
        /\ pc[w] = "done" /\ res[w].k = "Exception"
        /\ res[w].v = "DatabaseError"
        /\ \A p \in Procs : conn[p] = 0

\* The request fails a check that its service method makes.
FailsValidation(r) ==
    \/ r.op \in {"get", "search", "rate"} /\ Strip(r.title) = <<>>
    \/ r.op \in {"get", "search"} /\ Len(r.title) > MaxTitleLen
    \/ r.op = "get" /\ \E i \in DOMAIN r.title : r.title[i] = "NUL"
    \/ r.op \in {"search", "list"} /\ (r.page < 1 \/ r.limit < 1 \/ r.limit > MaxLimit)
    \/ r.op = "rate" /\ r.rating.k /= "num"
    \/ r.op = "rate" /\ r.rating.k = "num" /\ (r.rating.v < 0 \/ r.rating.v > MaxRating)

TitleRuleRejects(title) ==
    \/ Strip(title) = <<>>
    \/ Len(title) > MaxTitleLen
    \/ \E i \in DOMAIN title : title[i] = "NUL"

\* C12: get_song_by_title, get_song_by_title_paginated and rate_song, called
\* with other arguments that pass, raise ValueError exactly when the title
\* rule rejects the title, and otherwise go on to the DAO with the trimmed
\* title.
C12_SameTitleRule ==
    [][\A w \in Workers :
          LET r == req'[w]
          IN  ( /\ WorkerStep(w) /\ Free(w)
                /\ r.op \in {"get", "search", "rate"}
                /\ r.op = "search" => (r.page >= 1 /\ r.limit >= 1 /\ r.limit <= MaxLimit)
                /\ r.op = "rate" => (r.rating.k = "num" /\ r.rating.v >= 0
                                     /\ r.rating.v <= MaxRating) )
              => IF TitleRuleRejects(r.title)
                 THEN res'[w].k = "ValueError" /\ pc'[w] = "done"
                 ELSE pc'[w] \in AcqPcs /\ loc'[w].title = Strip(r.title)]_vars

\* C13: get_song_by_title_paginated, given a title that passes, and
\* get_all_songs raise ValueError when page < 1, limit < 1 or limit > 100,
\* and otherwise go on to the DAO, whose statement runs with the limit and
\* with OFFSET (page - 1) * limit.
C13_PageLimitRule ==
    [][\A w \in Workers :
          LET r == req'[w]
              q == req[w]
          IN  /\ ( /\ WorkerStep(w) /\ Free(w) /\ r.op \in {"search", "list"}
                   /\ r.op = "search" => ~TitleRuleRejects(r.title) )
                 => IF r.page < 1 \/ r.limit < 1 \/ r.limit > MaxLimit
                    THEN res'[w].k = "ValueError" /\ pc'[w] = "done"
                    ELSE /\ pc'[w] = IF r.op = "search" THEN "search_acq" ELSE "list_acq"
                         /\ loc'[w].offset = (r.page - 1) * r.limit
              /\ (pc[w] = "search_exec" /\ pc'[w] = "count_acq")
                 => loc'[w].songs_data \in
                        get_songs_by_title_paginated(store, Strip(q.title), q.limit,
                                                     (q.page - 1) * q.limit)
              /\ (pc[w] = "list_exec" /\ pc'[w] = "done" /\ res'[w].k = "ok")
                 => \E results \in get_songs_paginated(store, q.limit,
                                                       (q.page - 1) * q.limit) :
                        res'[w].v = ListResult(results, q.page, q.limit)]_vars

\* C13's case: page 2 of a search with limit 1 has returned the second of
\* the matching tracks.
C13_Witness ==
    \E w \in Workers :
        /\ pc[w] = "done" /\ req[w].op = "search"
        /\ req[w].page = 2 /\ req[w].limit = 1
        /\ res[w].k = "ok" /\ res[w].v /= None
        /\ res[w].v.songs[1].title = <<"I", " ", "L", "o">>

\* C14: in every result of get_song_by_title_paginated that is not None,
\* total_pages is the least number of pages of per_page rows that hold
\* total_results rows, has_next is current_page < total_pages, has_prev is
\* current_page > 1, next_page is current_page + 1 when has_next and else
\* null, and prev_page is current_page - 1 when has_prev and else null.
C14_PaginationMetadata ==
    \A w \in Workers :
        (pc[w] = "done" /\ req[w].op = "search" /\ res[w].k = "ok" /\ res[w].v /= None)
        => LET v == res[w].v
           IN  /\ v.current_page = req[w].page /\ v.per_page = req[w].limit
               /\ v.total_pages * v.per_page >= v.total_results
               /\ (v.total_pages - 1) * v.per_page < v.total_results
               /\ v.has_next = (v.current_page < v.total_pages)
               /\ v.has_prev = (v.current_page > 1)
               /\ v.next_page = IF v.has_next THEN Num(v.current_page + 1) ELSE NULL
               /\ v.prev_page = IF v.has_prev THEN Num(v.current_page - 1) ELSE NULL

\* C14's case: the second and last page of three results, two to a page.
C14_Witness ==
    \E w \in Workers :
        /\ pc[w] = "done" /\ req[w].op = "search"
        /\ res[w].k = "ok" /\ res[w].v /= None
        /\ res[w].v.total_results = 3 /\ res[w].v.per_page = 2
        /\ res[w].v.total_pages = 2 /\ res[w].v.current_page = 2
        /\ ~res[w].v.has_next /\ res[w].v.has_prev
        /\ Len(res[w].v.songs) = 1

\* C15: when get_song_by_title_paginated returns, it returns None exactly
\* when the page its search returned is empty, whatever the count is, and
\* the endpoint then answers 404.
C15_EmptyPageIsAbsent ==
    [][\A w \in Workers :
          (pc[w] = "count_exec" /\ pc'[w] = "done" /\ res'[w].k = "ok")
          => /\ (res'[w].v = None) <=> (loc[w].songs_data = <<>>)
             /\ (res'[w].v = None) => HttpResponse(w)'.status = 404
             /\ (res'[w].v /= None) => HttpResponse(w)'.status = 200]_vars

\* C15's case: page 3 of a search that has three matches, two to a page,
\* has returned None.
C15_Witness ==
    \E w \in Workers :
        /\ pc[w] = "done" /\ req[w].op = "search"
        /\ req[w].page = 3 /\ req[w].limit = 2
        /\ res[w] = Ok(None)
        /\ Cardinality({r \in store : SearchMatch(r, Strip(req[w].title))}) = 3

\* C19: every call that the service ends with ValueError is answered with
\* status 400 and the message of the ValueError.
C19_ValueErrorIs400 ==
    \A w \in Workers :
        (pc[w] = "done" /\ res[w].k = "ValueError")
        => HttpResponse(w) = Response(400, FALSE, "message", res[w].v)

\* The body is a JSON value other than an object with the key rating.
LacksRating(body) ==
    /\ body.k \notin {"missing", "garbage"}
    /\ ~(body.k = "object" /\ "rating" \in DOMAIN body.v)

\* C20: a POST without a body or with one that does not parse is answered
\* 400 "Request body is required", one whose body parses and lacks the key
\* rating 400 "Rating is required", and neither reaches the service.
C20_BodyChecks ==
    \A w \in Workers :
        (pc[w] /= "idle" /\ "body" \in DOMAIN req[w])
        => /\ req[w].body.k \in {"missing", "garbage"}
              => /\ pc[w] = "done" /\ req[w].op = "http_rate"
                 /\ res[w] = Early(400, "Request body is required")
           /\ LacksRating(req[w].body)
              => /\ pc[w] = "done" /\ req[w].op = "http_rate"
                 /\ res[w] = Early(400, "Rating is required")

\* C16: rate_song reaches update_song_rating only from check_song_exists
\* having found the title; when no stored title is the trimmed title, the
\* call ends at check_song_exists with None, or with the store's exception,
\* and the table is as it was.
C16_ExistsFirst ==
    [][\A w \in Workers :
          /\ (WorkerStep(w) /\ pc'[w] \in {"update_acq", "update_exec"})
             => \/ pc[w] = "exists_exec" /\ \E r \in store : r.title = loc[w].title
                \/ pc[w] = "update_acq" /\ pc'[w] = "update_exec"
          /\ (WorkerStep(w) /\ Free(w) /\ req'[w].op = "rate" /\ pc'[w] /= "done")
             => pc'[w] = "exists_acq"
          /\ (WorkerStep(w) /\ pc[w] = "exists_exec"
              /\ ~\E r \in store : r.title = loc[w].title)
             => /\ pc'[w] = "done"
                /\ res'[w] = Ok(None) \/ res'[w].k = "Exception"
                /\ store' = store]_vars

\* C16's case: a rate_song call for a title that no stored track has, with
\* a rating in range, has returned None, and no track is rated.
C16_Witness ==
    \E w \in Workers :
        /\ pc[w] = "done" /\ req[w].op = "rate" /\ req[w].rating = Rating(500)
        /\ res[w] = Ok(None)
        /\ store /= {} /\ \A r \in store : r.star_rating = NULL /\ r.title /= Strip(req[w].title)

SameButRating(r, n) ==
    [r EXCEPT !.star_rating = n.star_rating, !.updated_at = n.updated_at] = n

\* C18: every step keeps every row, with its id, title, features and
\* created_at; a step that changes a row is the UPDATE of a rate_song call;
\* and the steps of get_song_by_title, get_song_by_title_paginated and
\* get_all_songs leave the table as it is.
C18_FrameOfStore ==
    [][/\ \A r \in store : \E n \in store' : SameButRating(r, n)
       /\ (\E r \in store : r \notin store')
          => \E w \in Workers : /\ pc[w] = "update_exec" /\ pc'[w] = "done"
                                /\ req[w].op = "rate"
       /\ \A w \in Workers :
              (WorkerStep(w) /\ req'[w].op \in {"get", "search", "list"})
              => store' = store]_vars

\* C18's case: a track inserted at time 0 was rated at time 1, and a
\* get_all_songs call has returned since.
C18_Witness ==
    /\ \E r \in store : /\ r.star_rating = Num(20)
                        /\ r.created_at = 0 /\ r.updated_at = 1
    /\ \E w \in Workers : pc[w] = "done" /\ req[w].op = "list" /\ res[w].k = "ok"

\* The body is a JSON object with the key rating.
RatingOf(body) == body.v["rating"]
GivesRating(body) == body.k = "object" /\ "rating" \in DOMAIN body.v

\* C21: a POST whose rating is null, is no JSON number, or is a number outside
\* [0, 5] is answered 400 "Rating must be a number between 0 and 5" without a
\* call of the service; one whose rating is a number in [0, 5] calls the
\* service with the title and the rating as a float.
C21_RatingChecks ==
    \A w \in Workers :
        (pc[w] /= "idle" /\ "body" \in DOMAIN req[w] /\ GivesRating(req[w].body))
        => LET rating == RatingOf(req[w].body)
           IN  IF rating.k = "num" /\ 0 <= rating.v /\ rating.v <= MaxRating
               THEN req[w].op = "rate" /\ req[w].rating = rating
               ELSE /\ pc[w] = "done" /\ req[w].op = "http_rate"
                    /\ res[w] = Early(400, "Rating must be a number between 0 and 5")

\* C22: a GET or a POST that passes the checks of the endpoint and of the
\* service is answered by the outcome of the service call: 200 with
\* success true and the result as data for a result, 404 with success false
\* and a "not found" message for None, 500 with success false and the text
\* of the exception for an exception.
C22_StatusByOutcome ==
    \A w \in Workers :
        (pc[w] = "done" /\ res[w].k \in {"ok", "Exception"})
        => IF res[w].k = "Exception"
           THEN HttpResponse(w) = Response(500, FALSE, "error", res[w].v)
           ELSE IF res[w].v = None
           THEN /\ HttpResponse(w).status = 404
                /\ HttpResponse(w).success = FALSE
                /\ HttpResponse(w).key = "message"
                /\ HttpResponse(w).value \in {"Song not found", "No songs found"}
           ELSE HttpResponse(w) = Response(200, TRUE, "data", res[w].v)

C22_Witness ==
    \E w \in Workers :
        /\ pc[w] = "done" /\ req[w].op = "rate"
        /\ res[w].k = "ok" /\ res[w].v /= None
        /\ HttpResponse(w) = Response(200, TRUE, "data", res[w].v)

\* The pcs at which a service call makes its first DAO call.
FirstPcs == {"exists_acq", "find_acq", "search_acq", "list_acq"}

\* C23: when getconn or a statement of a DAO method fails, the service call
\* ends with that exception, the table is as it was before the failing DAO
\* call, and the call makes no other DAO call: a failing check_song_exists
\* is not followed by update_song_rating, and the worker's next DAO call is
\* the first one of a new call.
C23_StoreErrorPropagates ==
    [][\A w \in Workers :
        WorkerStep(w)
        => /\ (loc'[w].raised /= "" /\ loc[w].raised = "")
              => /\ pc[w] \in AcqPcs \cup ExecPcs
                 /\ pc'[w] = "done"
                 /\ res'[w] = [k |-> "Exception", v |-> loc'[w].raised]
                 /\ loc'[w].raised = IF pc[w] \in AcqPcs THEN "PoolError"
                                     ELSE "DatabaseError"
                 /\ store' = store
                 /\ last_rate' = last_rate
           /\ (pc[w] \in AcqPcs \cup ExecPcs /\ pc'[w] = "done" /\ res'[w].k /= "ok")
              => loc'[w].raised /= ""
           /\ loc[w].raised /= ""
              => /\ pc[w] = "done"
                 /\ res[w] = [k |-> "Exception", v |-> loc[w].raised]
                 /\ loc'[w].raised = ""
                 /\ pc'[w] \in FirstPcs \cup {"done"}
                 /\ res'[w].k \in {"pending", "ValueError", "response"}]_vars

C23_Witness ==
    \E w \in Workers :
        /\ pc[w] = "done" /\ req[w].op = "rate"
        /\ loc[w].raised = "DatabaseError"
        /\ res[w] = StoreError("DatabaseError")
        /\ check_song_exists(store, loc[w].title)
        /\ \A r \in store : r.star_rating = NULL

\* The rows whose lower-cased title contains the lower-cased term.
Containing(rows, term) == {r \in rows : Contains(Lower(r.title), Lower(term))}

\* C24: get_songs_by_title_paginated returns rows whose lower-cased title
\* contains the lower-cased term, as many of them as the limit and the
\* offset leave, and get_songs_count_by_title returns the number of such
\* rows of the table it reads, for every term.
C24_LiteralSubstring ==
    [][\A w \in Workers :
        WorkerStep(w)
        => /\ (pc[w] = "search_exec" /\ pc'[w] = "count_acq")
              => LET hits == Containing(store, loc[w].title)
                     left == Cardinality(hits) - loc[w].offset
                     songs == loc'[w].songs_data
                 IN  /\ \A i \in DOMAIN songs : \E r \in hits : songs[i] = SearchTuple(r)
                     /\ Len(songs) = IF left < 0 THEN 0
                                     ELSE IF left < req[w].limit THEN left
                                     ELSE req[w].limit
           /\ (pc[w] = "count_exec" /\ res'[w].k = "ok" /\ res'[w].v /= None)
              => res'[w].v.total_results
                     = Cardinality(Containing(store, loc[w].title))]_vars

\* The rows a finished reading call returns, each as its id, its rating and
\* its is_rated flag.
ReturnedRows(op, v) ==
    CASE op = "get" -> {[id |-> v.id, rating |-> v.star_rating, is_rated |-> v.is_rated]}
      [] op = "search" -> {[id |-> v.songs[i].id, rating |-> v.songs[i].star_rating,
                           is_rated |-> v.songs[i].is_rated] : i \in DOMAIN v.songs}
      [] op = "list" -> {[id |-> v.songs[i].id, rating |-> v.songs[i].rating,
                         is_rated |-> v.songs[i].is_rated] : i \in DOMAIN v.songs}
      [] OTHER -> {}

\* C25: a row is created with star_rating NULL, and its star_rating becomes
\* non-NULL only in a rate_song call on its title that returns a result; in
\* every row get_song_by_title, get_song_by_title_paginated and
\* get_all_songs return, is_rated is true exactly when the rating returned
\* is not None, which is exactly when the stored row is rated.
C25_UnratedUntilRated ==
    [][/\ \A n \in store' :
           (\A r \in store : r.id /= n.id) => n.star_rating = NULL
       /\ \A r \in store, n \in store' :
           (r.id = n.id /\ r.star_rating = NULL /\ n.star_rating /= NULL)
           => \E w \in Workers :
                  /\ req[w].op = "rate" /\ pc[w] = "update_exec" /\ pc'[w] = "done"
                  /\ res'[w].k = "ok" /\ res'[w].v /= None
                  /\ Lower(r.title) = Lower(Strip(req[w].title))
       /\ \A w \in Workers :
           (WorkerStep(w) /\ pc'[w] = "done" /\ res'[w].k = "ok" /\ res'[w].v /= None)
           => \A x \in ReturnedRows(req'[w].op, res'[w].v) :
                  /\ x.is_rated <=> x.rating /= NULL
                  /\ \E r \in store : r.id = x.id /\ (x.is_rated <=> r.star_rating /= NULL)
      ]_vars

C25_Witness ==
    /\ \E r \in store : r.star_rating /= NULL
    /\ \E w \in Workers :
        /\ pc[w] = "done" /\ req[w].op = "search" /\ res[w].k = "ok" /\ res[w].v /= None
        /\ \E x \in ReturnedRows("search", res[w].v) :
               /\ ~x.is_rated
               /\ \E r \in store : r.id = x.id /\ r.star_rating = NULL

\* C26: once check_song_exists has returned True in a rate_song call, the
\* table holds a row the UPDATE of that call matches until the UPDATE runs,
\* so update_song_rating returns a row and rate_song, past the existence
\* check, does not return None.
C26_DefensiveBranchDead ==
    [][\A w \in Workers :
        /\ pc'[w] \in {"update_acq", "update_exec"}
           => \E r \in store' : ExactMatch(r, loc'[w].title)
        /\ (WorkerStep(w) /\ pc[w] = "update_exec" /\ res'[w].k = "ok")
           => res'[w].v /= None
        /\ (WorkerStep(w) /\ req'[w].op = "rate" /\ res'[w] = Ok(None))
           => pc[w] = "exists_exec" /\ ~check_song_exists(store, loc[w].title)
      ]_vars

C26_Witness ==
    \E w \in Workers, v \in Workers :
        /\ w /= v
        /\ pc[w] = "done" /\ req[w].op = "rate" /\ req[w].title = <<"l", "o">>
        /\ res[w].k = "ok" /\ res[w].v /= None
        /\ pc[v] = "update_exec"
        /\ ing.pc /= "idle"

\* C27: a result of get_song_by_title_paginated holds at least one song and
\* at most per_page songs, and its current_page is at most its total_pages,
\* also when the ingestion commits between the page query and the count
\* query of the call.
C27_PageWithinTotal ==
    \A w \in Workers :
        (pc[w] = "done" /\ req[w].op = "search" /\ res[w].k = "ok" /\ res[w].v /= None)
        => /\ 1 <= Len(res[w].v.songs)
           /\ Len(res[w].v.songs) <= res[w].v.per_page
           /\ res[w].v.current_page <= res[w].v.total_pages

\* A result whose page was read before a commit of the ingestion and whose
\* count was read after it: the page is not full and is not the last one.
C27_Witness ==
    \E w \in Workers :
        /\ pc[w] = "done" /\ req[w].op = "search" /\ res[w].k = "ok" /\ res[w].v /= None
        /\ Len(res[w].v.songs) < res[w].v.per_page
        /\ (res[w].v.current_page - 1) * res[w].v.per_page + Len(res[w].v.songs)
               < res[w].v.total_results

\* C28: a rate_song call that returns a result changes the star_rating and
\* the updated_at of the row whose id it returns, and leaves every row of
\* another id as it was.
C28_OneTrackRated ==
    [][\A w \in Workers :
        (WorkerStep(w) /\ pc[w] = "update_exec" /\ res'[w].k = "ok" /\ res'[w].v /= None)
        => /\ \E r \in store :
                 /\ r.id = res'[w].v.id
                 /\ UpdatedRow(r, loc[w].rating, clock) \in store'
           /\ \A r \in store : r.id /= res'[w].v.id => r \in store']_vars

\* C29: when an insert of insert_file_data or its commit fails, the table is
\* as it was before the batch, so no entity of the batch has come into it;
\* the script ends with the store's exception and holds no connection.
C29_BatchAllOrNothing ==
    [][(ing.pc = "insert_exec" /\ ing'.pc = "raised")
       => /\ store' = store
          /\ \A i \in DOMAIN ing.entities :
                 \A r \in store' : r.id = ing.entities[i].id => r \in store
          /\ ing'.error = StoreError("DatabaseError")
          /\ conn[Ingest] = 1 /\ conn'[Ingest] = 0]_vars

\* The second seed file has failed on a table that holds the first: the
\* track c of the file is not stored.
C29_Witness ==
    /\ ing.pc = "raised" /\ ing.error = StoreError("DatabaseError")
    /\ ing.data = <<R_a2, R_c>>
    /\ conn[Ingest] = 0
    /\ \E r \in store : r.id = "a"
    /\ \A r \in store : r.id /= "c"

\* C30: in every row get_all_songs returns, danceability and energy are
\* None exactly when the stored value is NULL, and a stored 0 is returned
\* as 0.
C30_ZeroIsReported ==
    \A w \in Workers :
        (pc[w] = "done" /\ req[w].op = "list" /\ res[w].k = "ok")
        => \A i \in DOMAIN res[w].v.songs :
               LET x == res[w].v.songs[i]
               IN  \E r \in store :
                       /\ r.id = x.id
                       /\ x.danceability = NULL <=> r.danceability = NULL
                       /\ x.energy = NULL <=> r.energy = NULL
                       /\ r.danceability = Num(0) => x.danceability = Num(0)
                       /\ r.energy = Num(0) => x.energy = Num(0)

====
